---- MODULE Spec2Model ----
(***************************************************************************)
(* ForesightManager (packages/js.foresight/src/Manager/ForesightManager.ts) *)
(* as a state machine: the element registry, the global settings, the      *)
(* listener lifecycle and the mouse / tab / scroll fire paths.             *)
(*                                                                         *)
(* Conventions                                                             *)
(*  - an optional value (undefined / null in the source) is a sequence:    *)
(*    <<>> when absent, <<v>> when present;                                *)
(*  - the Map `elements` is a sequence of records in insertion order (the  *)
(*    iteration order of a JavaScript Map), with pairwise distinct keys;   *)
(*  - a handler is a function from the manager state `m` (a record of all  *)
(*    fields) to the manager state after it ran; `m.thrown` is the         *)
(*    exception in flight, which skips every later statement of the        *)
(*    handler; `m.emitted` and `m.called` are what the handler published   *)
(*    and which callbacks it invoked.                                      *)
(***************************************************************************)
EXTENDS Integers, Sequences, FiniteSets, TLC

\* ------------------------------------------------------------------ bounds
\* Listeners subscribed to one event type.
MaxListeners == 2
\* Fires are possible while the global total is below MaxHits.
MaxHits == 2
\* Entries of one position-change batch.
MaxBatch == 1
\* MutationRecords waiting for delivery.
MaxPending == 1

\* ------------------------------------------------------- program constants
DEFAULT_POSITION_HISTORY_SIZE == 8
DEFAULT_TRAJECTORY_PREDICTION_TIME == 120
DEFAULT_TAB_OFFSET == 2
DEFAULT_HITSLOP == 0
DEFAULT_SCROLL_MARGIN == 150
MIN_POSITION_HISTORY_SIZE == 0
MAX_POSITION_HISTORY_SIZE == 30
MIN_TRAJECTORY_PREDICTION_TIME == 10
MAX_TRAJECTORY_PREDICTION_TIME == 200
MIN_TAB_OFFSET == 0
MAX_TAB_OFFSET == 20
MIN_SCROLL_MARGIN == 30
MAX_SCROLL_MARGIN == 300
MIN_HITSLOP == 0
MAX_HITSLOP == 2000
DEFAULT_ENABLE_MOUSE_PREDICTION == TRUE
DEFAULT_ENABLE_SCROLL_PREDICTION == TRUE
DEFAULT_ENABLE_TAB_PREDICTION == TRUE
\* Milliseconds between two pointer samples (the source reads a clock).
SampleIntervalMs == 40

\* ------------------------------------------------------------- the world
\* The DOM nodes in document order; "n0" is focusable and never registered.
DomOrder == <<"e1", "n0", "e2">>
Elements == {"e1", "e2"}
Nodes == {DomOrder[i] : i \in 1..Len(DomOrder)}
\* Callbacks a consumer registers; "cbThrows" raises when invoked.
Callbacks == {"cb1", "cbThrows"}
Hooks == {"noop", "hookThrows"}
CallbackThrows(cb) == cb = "cbThrows"
HookThrows(h) == h = "hookThrows"

None == <<>>
Some(v) == <<v>>
IsSome(o) == Len(o) > 0
Val(o) == o[1]

Point(x, y) == [x |-> x, y |-> y]
Rect(t, l, r, b) == [top |-> t, left |-> l, right |-> r, bottom |-> b]
ZeroRect == Rect(0, 0, 0, 0)

\* ------------------------------------------------------- helper functions
Min(a, b) == IF a < b THEN a ELSE b
Max(a, b) == IF a > b THEN a ELSE b

clampNumber(number, lowerBound, upperBound) ==
    Min(Max(number, lowerBound), upperBound)

\* newValue is an optional; currentValue the stored value.
shouldUpdateSetting(newValue, currentValue) ==
    IsSome(newValue) /\ Val(newValue) # currentValue

\* hitSlop is a number, written [num |-> n], or a Rect; every side is clamped
\* to [MIN_HITSLOP, MAX_HITSLOP].
IsNumber(hitSlop) == DOMAIN hitSlop = {"num"}
normalizeHitSlop(hitSlop) ==
    IF IsNumber(hitSlop)
    THEN LET c == clampNumber(hitSlop.num, MIN_HITSLOP, MAX_HITSLOP)
         IN Rect(c, c, c, c)
    ELSE Rect(clampNumber(hitSlop.top, MIN_HITSLOP, MAX_HITSLOP),
              clampNumber(hitSlop.left, MIN_HITSLOP, MAX_HITSLOP),
              clampNumber(hitSlop.right, MIN_HITSLOP, MAX_HITSLOP),
              clampNumber(hitSlop.bottom, MIN_HITSLOP, MAX_HITSLOP))

getExpandedRect(baseRect, hitSlop) ==
    Rect(baseRect.top - hitSlop.top, baseRect.left - hitSlop.left,
         baseRect.right + hitSlop.right, baseRect.bottom + hitSlop.bottom)

areRectsEqual(rect1, rect2) ==
    /\ rect1.left = rect2.left
    /\ rect1.right = rect2.right
    /\ rect1.top = rect2.top
    /\ rect1.bottom = rect2.bottom

isPointInRectangle(point, rect) ==
    /\ point.x >= rect.left
    /\ point.x <= rect.right
    /\ point.y >= rect.top
    /\ point.y <= rect.bottom

\* Liang-Barsky clipping of the segment p1 + t (p2 - p1), t in [0, 1], against
\* the four half planes p[i] t <= q[i]; the comparisons of the quotients
\* q[i] / p[i] are cross-multiplied, so the test is exact over the integers.
lineSegmentIntersectsRect(p1, p2, rect) ==
    LET dx == p2.x - p1.x
        dy == p2.y - p1.y
        p == <<-dx, dx, -dy, dy>>
        q == <<p1.x - rect.left, rect.right - p1.x,
               p1.y - rect.top, rect.bottom - p1.y>>
        I == 1..4
    IN /\ \A i \in I : p[i] = 0 => q[i] >= 0
       /\ \A i \in I : p[i] > 0 => q[i] >= 0
       /\ \A i \in I : p[i] < 0 => q[i] >= p[i]
       /\ \A i, j \in I : (p[i] < 0 /\ p[j] > 0) => q[i] * p[j] >= q[j] * p[i]

\* ------------------------------------------------------------ the registry
\* Map<ForesightElement, ForesightElementData>: has / get / set / delete.
IndexOf(elements, element) ==
    IF \E i \in 1..Len(elements) : elements[i].element = element
    THEN CHOOSE i \in 1..Len(elements) : elements[i].element = element
    ELSE 0
MapHas(elements, element) == IndexOf(elements, element) # 0
MapGet(elements, element) == elements[IndexOf(elements, element)]
\* set() on a present key keeps the key's place in the iteration order.
MapSet(elements, data) ==
    IF MapHas(elements, data.element)
    THEN [elements EXCEPT ![IndexOf(elements, data.element)] = data]
    ELSE Append(elements, data)
MapDelete(elements, element) ==
    LET k == IndexOf(elements, element)
    IN IF k = 0 THEN elements
       ELSE [i \in 1..(Len(elements) - 1) |->
                IF i < k THEN elements[i] ELSE elements[i + 1]]
MapKeys(elements) == {elements[i].element : i \in 1..Len(elements)}

ZeroHits ==
    [mouse |-> [hover |-> 0, trajectory |-> 0],
     tab |-> [forwards |-> 0, reverse |-> 0],
     scroll |-> [down |-> 0, left |-> 0, right |-> 0, up |-> 0],
     total |-> 0]

\* ------------------------------------------------------------- event bus
\* emit: the event is appended to what the running handler published.  The
\* event records what a subscriber that looks the element up in the registry
\* finds while the event is published: whether it is there, and its counters.
Event(m, type, element, detail) ==
    [type |-> type, element |-> element, detail |-> detail,
     registered |-> MapHas(m.elements, element),
     callbackHits |-> IF MapHas(m.elements, element)
                      THEN Some(MapGet(m.elements, element).callbackHits)
                      ELSE None]
EventTypes ==
    {"elementRegistered", "elementUnregistered", "elementDataUpdated",
     "callbackFired", "mouseTrajectoryUpdate", "scrollTrajectoryUpdate",
     "managerSettingsChanged"}
\* The subscribers' listeners: "l1" returns, "lThrows" raises.
Subscribers == {"l1", "lThrows"}
SubscriberThrows(listener) == listener = "lThrows"
\* "lLeaves" unsubscribes itself from the event's type while it handles the
\* event, by removeEventListener or by aborting the signal it subscribed with.
SubscriberLeaves(listener) == listener = "lLeaves"

\* this.addEventListener(eventType, listener, options); `aborted` is
\* options?.signal?.aborted.
managerAddEventListener(m, eventType, listener, aborted) ==
    IF aborted THEN m
    ELSE [m EXCEPT !.eventListeners[eventType] = Append(@, listener)]

\* this.removeEventListener(eventType, listener): indexOf, then splice.
managerRemoveEventListener(m, eventType, listener) ==
    LET listeners == m.eventListeners[eventType]
    IN IF \E i \in 1..Len(listeners) : listeners[i] = listener
       THEN LET index == CHOOSE i \in 1..Len(listeners) :
                            /\ listeners[i] = listener
                            /\ \A j \in 1..(i - 1) : listeners[j] # listener
            IN [m EXCEPT !.eventListeners[eventType] =
                   [k \in 1..(Len(listeners) - 1) |->
                       IF k < index THEN listeners[k] ELSE listeners[k + 1]]]
       ELSE m

\* emit without the try / catch around the listener: the first listener
\* that raises ends the delivery and the exception goes to emit's caller.
RECURSIVE DeliverFrom_rethrows(_, _, _)
DeliverFrom_rethrows(m, listeners, event) ==
    IF listeners = <<>> THEN m
    ELSE LET m1 == [m EXCEPT !.delivered =
                       Append(@, [listener |-> Head(listeners), event |-> event,
                                  raised |-> SubscriberThrows(Head(listeners))])]
         IN IF SubscriberThrows(Head(listeners))
            THEN [m1 EXCEPT !.thrown = TRUE]
            ELSE DeliverFrom_rethrows(m1, Tail(listeners), event)

\* listeners.forEach(listener => { try { listener(event) } catch { ... } })
\* `listeners` is what forEach has still to visit of the array the Map holds.
\* forEach goes by index over that array itself: a listener that splices
\* itself out moves the ones behind it one index down, and the next index
\* then holds the listener after the next one.
RECURSIVE DeliverFrom(_, _, _)
DeliverFrom(m, listeners, event) ==
    IF listeners = <<>> THEN m
    ELSE LET listener == Head(listeners)
             m1 == [m EXCEPT !.delivered =
                      Append(@, [listener |-> listener, event |-> event,
                                 raised |-> SubscriberThrows(listener)])]
         IN IF SubscriberLeaves(listener)
            THEN DeliverFrom(
                   managerRemoveEventListener(m1, event.type, listener),
                   IF Len(listeners) > 1 THEN Tail(Tail(listeners)) ELSE <<>>,
                   event)
            ELSE DeliverFrom(m1, Tail(listeners), event)

emit(m, type, element, detail) ==
    LET event == Event(m, type, element, detail)
        m1 == [m EXCEPT !.emitted = Append(@, event)]
    IN DeliverFrom(m1, m1.eventListeners[type], event)

\* ---------------------------------------------------- listener lifecycle
\* typeof window / typeof document: the model is of a browser.
BrowserEnvironment == TRUE

\* document.addEventListener(type, handler, { signal }): `documentListeners`
\* is the document's listener list; adding a listener that is already in the
\* list (same type, same handler) adds nothing.
Listener(type, signal) == [type |-> type, signal |-> signal]
addEventListener(listeners, type, signal) ==
    IF \E l \in listeners : l.type = type
    THEN listeners
    ELSE listeners \cup {Listener(type, signal)}
\* AbortController.abort(): every listener added with the signal is removed.
abort(listeners) == {l \in listeners : ~l.signal}
Listening(listeners, type) == \E l \in listeners : l.type = type

initializeGlobalListeners(m) ==
    IF m.isSetup THEN m
    ELSE IF ~BrowserEnvironment THEN m
    ELSE [m EXCEPT !.globalListenersController = TRUE,
                   !.documentListeners =
                       addEventListener(
                         addEventListener(
                           addEventListener(@, "mousemove", FALSE),
                           "keydown", TRUE),
                         "focusin", TRUE),
                   !.domObserver = TRUE,
                   !.positionObserver = Some({}),
                   !.isSetup = TRUE]

\* removeGlobalListeners() that drops the controller without aborting it.
removeGlobalListeners_noAbort(m) ==
    [m EXCEPT !.isSetup = FALSE,
              !.globalListenersController = FALSE,
              !.domObserver = FALSE,
              !.pendingMutations = <<>>,
              !.positionObserver = None]

\* domObserver.disconnect() drops the records not yet delivered.
removeGlobalListeners(m) ==
    [m EXCEPT !.isSetup = FALSE,
              !.documentListeners =
                  IF m.globalListenersController THEN abort(@) ELSE @,
              !.globalListenersController = FALSE,
              !.domObserver = FALSE,
              !.pendingMutations = <<>>,
              !.positionObserver = None]

\* positionObserver?.observe / unobserve
observe(m, element) ==
    IF IsSome(m.positionObserver)
    THEN [m EXCEPT !.positionObserver = Some(Val(@) \cup {element})]
    ELSE m
unobserve(m, element) ==
    IF IsSome(m.positionObserver)
    THEN [m EXCEPT !.positionObserver = Some(Val(@) \ {element})]
    ELSE m

\* ------------------------------------------------- register / unregister
\* unregister() that leaves the listeners and observers in place when the
\* last element goes.
unregister_keepsListeners(m, element, unregisterReason) ==
    IF ~MapHas(m.elements, element) THEN m
    ELSE LET m1 == emit(m, "elementUnregistered", element, unregisterReason)
             m2 == unobserve(m1, element)
         IN [m2 EXCEPT !.elements = MapDelete(@, element)]

\* unregister() that publishes elementUnregistered before it looks the
\* element up.
unregister_publishesFirst(m, element, unregisterReason) ==
    LET m1 == emit(m, "elementUnregistered", element, unregisterReason)
    IN IF ~MapHas(m.elements, element) THEN m1
       ELSE LET m2 == unobserve(m1, element)
                m3 == [m2 EXCEPT !.elements = MapDelete(@, element)]
            IN IF Len(m3.elements) = 0 /\ m3.isSetup
               THEN removeGlobalListeners(m3)
               ELSE m3

\* unregister that publishes nothing.
unregister_withoutEvent(m, element, unregisterReason) ==
    IF ~MapHas(m.elements, element) THEN m
    ELSE LET m2 == unobserve(m, element)
             m3 == [m2 EXCEPT !.elements = MapDelete(@, element)]
         IN IF Len(m3.elements) = 0 /\ m3.isSetup
            THEN removeGlobalListeners(m3)
            ELSE m3

unregister(m, element, unregisterReason) ==
    IF ~MapHas(m.elements, element) THEN m
    ELSE LET m1 == emit(m, "elementUnregistered", element, unregisterReason)
             m2 == unobserve(m1, element)
             m3 == [m2 EXCEPT !.elements = MapDelete(@, element)]
         IN IF Len(m3.elements) = 0 /\ m3.isSetup
            THEN removeGlobalListeners(m3)
            ELSE m3

\* `hitSlop ? ... : ...`: the number 0 is falsy, a Rect is truthy.
Truthy(hitSlop) == ~IsNumber(hitSlop) \/ hitSlop.num # 0

NewElementData(m, element, callback, hitSlop) ==
    [element |-> element,
     callback |-> callback,
     callbackHits |-> ZeroHits,
     elementBounds |->
        [originalRect |-> None,
         expandedRect |-> ZeroRect,
         hitSlop |-> IF IsSome(hitSlop) /\ Truthy(Val(hitSlop))
                     THEN normalizeHitSlop(Val(hitSlop))
                     ELSE m.globalSettings.defaultHitSlop],
     isIntersectingWithViewport |-> TRUE]

\* register() that sets the listeners up before it asks whether the
\* environment is eligible.
register_setsUpFirst(m, element, callback, hitSlop, shouldRegister) ==
    LET m1 == IF ~m.isSetup THEN initializeGlobalListeners(m) ELSE m
    IN IF ~shouldRegister
       THEN [m1 EXCEPT !.result = [isRegistered |-> FALSE, unregister |-> "noop"]]
       ELSE LET m2 == [m1 EXCEPT !.elements =
                          MapSet(@, NewElementData(m1, element, callback, hitSlop))]
                m3 == observe(m2, element)
                m4 == emit(m3, "elementRegistered", element, "")
            IN [m4 EXCEPT !.result = [isRegistered |-> TRUE, unregister |-> element]]

\* register() that keeps the record of an element it already holds.
register_keepsExisting(m, element, callback, hitSlop, shouldRegister) ==
    IF ~shouldRegister
    THEN [m EXCEPT !.result = [isRegistered |-> FALSE, unregister |-> "noop"]]
    ELSE LET m1 == IF ~m.isSetup THEN initializeGlobalListeners(m) ELSE m
             m2 == IF MapHas(m1.elements, element) THEN m1
                   ELSE [m1 EXCEPT !.elements =
                           MapSet(@, NewElementData(m1, element, callback, hitSlop))]
             m3 == observe(m2, element)
             m4 == emit(m3, "elementRegistered", element, "")
         IN [m4 EXCEPT !.result = [isRegistered |-> TRUE, unregister |-> element]]

\* register(): `shouldRegister` is evaluateRegistrationConditions()'s answer;
\* m.result is what register() returns.
register(m, element, callback, hitSlop, shouldRegister) ==
    IF ~shouldRegister
    THEN [m EXCEPT !.result = [isRegistered |-> FALSE, unregister |-> "noop"]]
    ELSE LET m1 == IF ~m.isSetup THEN initializeGlobalListeners(m) ELSE m
             m2 == [m1 EXCEPT !.elements =
                        MapSet(@, NewElementData(m1, element, callback, hitSlop))]
             m3 == observe(m2, element)
             m4 == emit(m3, "elementRegistered", element, "")
         IN [m4 EXCEPT !.result = [isRegistered |-> TRUE, unregister |-> element]]

\* ------------------------------------------------------------- settings
\* The result of an update function: the manager state and what it returned.
Ret(m, value) == [m |-> m, value |-> value]

\* updateNumericSettings() that stores the value as given.
updateNumericSettings_unclamped(m, newValue, setting, min, max) ==
    IF ~shouldUpdateSetting(newValue, m.globalSettings[setting])
    THEN Ret(m, FALSE)
    ELSE Ret([m EXCEPT !.globalSettings[setting] = Val(newValue)], TRUE)

updateNumericSettings(m, newValue, setting, min, max) ==
    IF ~shouldUpdateSetting(newValue, m.globalSettings[setting])
    THEN Ret(m, FALSE)
    ELSE Ret([m EXCEPT !.globalSettings[setting] =
                           clampNumber(Val(newValue), min, max)],
             TRUE)

updateBooleanSetting(m, newValue, setting) ==
    IF ~shouldUpdateSetting(newValue, m.globalSettings[setting])
    THEN Ret(m, FALSE)
    ELSE Ret([m EXCEPT !.globalSettings[setting] = Val(newValue)], TRUE)

\* `layout[e]` is e.getBoundingClientRect() at the time of the call.
forceUpdateElementBounds(m, elementData, layout) ==
    LET newOriginalRect == layout[elementData.element]
        expandedRect ==
            getExpandedRect(newOriginalRect, elementData.elementBounds.hitSlop)
    IN IF ~areRectsEqual(expandedRect, elementData.elementBounds.expandedRect)
       THEN LET updatedElementData ==
                    [elementData EXCEPT
                        !.elementBounds.originalRect = Some(newOriginalRect),
                        !.elementBounds.expandedRect = expandedRect]
                m1 == [m EXCEPT !.elements = MapSet(@, updatedElementData)]
            IN emit(m1, "elementDataUpdated", elementData.element, "bounds")
       ELSE m

\* The forEach of forceUpdateAllElementBounds without its visibility test.
RECURSIVE ForceUpdateFrom_ignoresVisibility(_, _, _)
ForceUpdateFrom_ignoresVisibility(m, keys, layout) ==
    IF keys = <<>> THEN m
    ELSE ForceUpdateFrom_ignoresVisibility(
           forceUpdateElementBounds(m, MapGet(m.elements, Head(keys)), layout),
           Tail(keys), layout)

RECURSIVE ForceUpdateFrom(_, _, _)
ForceUpdateFrom(m, keys, layout) ==
    IF keys = <<>> THEN m
    ELSE LET elementData == MapGet(m.elements, Head(keys))
         IN ForceUpdateFrom(
              IF elementData.isIntersectingWithViewport
              THEN forceUpdateElementBounds(m, elementData, layout)
              ELSE m,
              Tail(keys), layout)

KeysInOrder(elements) == [i \in 1..Len(elements) |-> elements[i].element]

forceUpdateAllElementBounds(m, layout) ==
    ForceUpdateFrom(m, KeysInOrder(m.elements), layout)

\* A slice that keeps the oldest entries instead of the newest.
SliceFrom_keepsOldest(positions, start) ==
    [i \in 1..(Len(positions) - start) |-> positions[i]]

\* positions.slice(length - size): the newest `size` entries, in order.
SliceFrom(positions, start) ==
    [i \in 1..(Len(positions) - start) |-> positions[i + start]]

NoProps ==
    [positionHistorySize |-> None, trajectoryPredictionTime |-> None,
     scrollMargin |-> None, tabOffset |-> None,
     enableMousePrediction |-> None, enableScrollPrediction |-> None,
     enableTabPrediction |-> None, onAnyCallbackFired |-> None,
     defaultHitSlop |-> None]

alterGlobalSettings(m, props, layout) ==
    LET oldPositionHistorySize == m.globalSettings.positionHistorySize
        r1 == updateNumericSettings(m, props.positionHistorySize,
                "positionHistorySize",
                MIN_POSITION_HISTORY_SIZE, MAX_POSITION_HISTORY_SIZE)
        positionHistoryChanged == r1.value
        size == r1.m.globalSettings.positionHistorySize
        positions == r1.m.trajectoryPositions.positions
        m1 == IF /\ positionHistoryChanged
                 /\ size < oldPositionHistorySize
                 /\ Len(positions) > size
              THEN [r1.m EXCEPT !.trajectoryPositions.positions =
                                    SliceFrom(positions, Len(positions) - size)]
              ELSE r1.m
        r2 == updateNumericSettings(m1, props.trajectoryPredictionTime,
                "trajectoryPredictionTime",
                MIN_TRAJECTORY_PREDICTION_TIME, MAX_TRAJECTORY_PREDICTION_TIME)
        r3 == updateNumericSettings(r2.m, props.scrollMargin, "scrollMargin",
                MIN_SCROLL_MARGIN, MAX_SCROLL_MARGIN)
        r4 == updateNumericSettings(r3.m, props.tabOffset, "tabOffset",
                MIN_TAB_OFFSET, MAX_TAB_OFFSET)
        r5 == updateBooleanSetting(r4.m, props.enableMousePrediction,
                "enableMousePrediction")
        r6 == updateBooleanSetting(r5.m, props.enableScrollPrediction,
                "enableScrollPrediction")
        r7 == updateBooleanSetting(r6.m, props.enableTabPrediction,
                "enableTabPrediction")
        m8 == IF IsSome(props.onAnyCallbackFired)
              THEN [r7.m EXCEPT !.globalSettings.onAnyCallbackFired =
                                    Val(props.onAnyCallbackFired)]
              ELSE r7.m
        hitSlopChanged ==
            /\ IsSome(props.defaultHitSlop)
            /\ ~areRectsEqual(m8.globalSettings.defaultHitSlop,
                              normalizeHitSlop(Val(props.defaultHitSlop)))
        m9 == IF hitSlopChanged
              THEN forceUpdateAllElementBounds(
                     [m8 EXCEPT !.globalSettings.defaultHitSlop =
                                    normalizeHitSlop(Val(props.defaultHitSlop))],
                     layout)
              ELSE m8
        settingsActuallyChanged ==
            \/ positionHistoryChanged
            \/ r2.value
            \/ r4.value
            \/ r5.value
            \/ r7.value
            \/ r6.value
            \/ hitSlopChanged
            \/ r3.value
    IN IF settingsActuallyChanged
       THEN emit(m9, "managerSettingsChanged", "", "")
       ELSE m9

\* -------------------------------------------------------- pointer state
\* predictNextMousePosition pushes the current point on the history buffer,
\* drops the oldest entry beyond positionHistorySize, and extrapolates the
\* velocity between the oldest and the newest sample over the prediction
\* time.  Two samples are SampleIntervalMs apart.  The result is the predicted
\* point and the buffer as the call leaves it.
predictNextMousePosition(currentPoint, buffer, positionHistorySize, trajectoryPredictionTime) ==
    LET pushed == Append(buffer, currentPoint)
        kept == IF Len(pushed) > positionHistorySize THEN Tail(pushed) ELSE pushed
        n == Len(kept)
        dt == (n - 1) * SampleIntervalMs
    IN IF n < 2
       THEN [point |-> currentPoint, buffer |-> kept]
       ELSE [point |->
                Point(currentPoint.x
                        + ((kept[n].x - kept[1].x) * trajectoryPredictionTime) \div dt,
                      currentPoint.y
                        + ((kept[n].y - kept[1].y) * trajectoryPredictionTime) \div dt),
             buffer |-> kept]

updatePointerState(m, e) ==
    LET currentPoint == Point(e.clientX, e.clientY)
        predicted ==
            predictNextMousePosition(currentPoint,
                m.trajectoryPositions.positions,
                m.globalSettings.positionHistorySize,
                m.globalSettings.trajectoryPredictionTime)
    IN IF m.globalSettings.enableMousePrediction
       THEN [m EXCEPT !.trajectoryPositions =
                [positions |-> predicted.buffer,
                 currentPoint |-> currentPoint,
                 predictedPoint |-> predicted.point]]
       ELSE [m EXCEPT !.trajectoryPositions.currentPoint = currentPoint,
                      !.trajectoryPositions.predictedPoint = currentPoint]

\* ------------------------------------------------------------ the fire
HitType(kind, subType) == [kind |-> kind, subType |-> subType]
HitTypes ==
    {HitType("mouse", s) : s \in {"hover", "trajectory"}}
       \cup {HitType("tab", s) : s \in {"forwards", "reverse"}}
       \cup {HitType("scroll", s) : s \in {"down", "left", "right", "up"}}

\* updateHitCounters that leaves the total alone.
updateHitCounters_withoutTotal(hits, hitType) ==
    [hits EXCEPT ![hitType.kind][hitType.subType] = @ + 1]

updateHitCounters(hits, hitType) ==
    [hits EXCEPT ![hitType.kind][hitType.subType] = @ + 1, !.total = @ + 1]

\* callCallback that unregisters the element before it invokes and publishes.
callCallback_unregistersFirst(m, elementData, hitType) ==
    IF ~IsSome(elementData) THEN m
    ELSE LET data == [Val(elementData) EXCEPT
                         !.callbackHits = updateHitCounters(@, hitType)]
             m0 == unregister(m, data.element, "callbackHit")
             m1 == [m0 EXCEPT
                      !.globalCallbackHits = updateHitCounters(@, hitType)]
             m2 == [m1 EXCEPT
                      !.called = Append(@, [element |-> data.element,
                                            callback |-> data.callback,
                                            hitType |-> hitType,
                                            callbackHits |-> data.callbackHits,
                                            elementBounds |-> data.elementBounds,
                                            storedBounds |->
                                               IF MapHas(m1.elements, data.element)
                                               THEN Some(MapGet(m1.elements,
                                                           data.element).elementBounds)
                                               ELSE None,
                                            registered |->
                                               MapHas(m1.elements, data.element),
                                            published |-> Len(m1.emitted)])]
             m3 == [m2 EXCEPT
                      !.hooked = Append(@, [element |-> data.element,
                                            hook |-> m2.globalSettings.onAnyCallbackFired,
                                            callbackHits |-> data.callbackHits,
                                            registered |->
                                               MapHas(m2.elements, data.element),
                                            called |-> Len(m2.called),
                                            published |-> Len(m2.emitted)])]
         IN IF CallbackThrows(data.callback)
            THEN [m2 EXCEPT !.thrown = TRUE]
            ELSE IF HookThrows(m3.globalSettings.onAnyCallbackFired)
            THEN [m3 EXCEPT !.thrown = TRUE]
            ELSE emit(m3, "callbackFired", data.element, hitType.subType)

\* callCallback(elementData, hitType).  `elementData` is an optional record:
\* the object the Map holds, or the object it held before updateElementBounds
\* stored a shallow copy; both share one callbackHits object, so the
\* increment shows in the Map's record either way.  A callback or hook that
\* raises leaves the rest of the function undone.  `called` and `hooked`
\* record what the callback and the hook can observe when they are invoked:
\* `elementBounds` are the bounds of the object passed, the ones its caller
\* tested, `storedBounds` those of the Map's record.
callCallback(m, elementData, hitType) ==
    IF ~IsSome(elementData) THEN m
    ELSE LET data == [Val(elementData) EXCEPT
                         !.callbackHits = updateHitCounters(@, hitType)]
             m1 == [m EXCEPT
                      !.globalCallbackHits = updateHitCounters(@, hitType),
                      !.elements =
                          IF MapHas(@, data.element)
                          THEN MapSet(@, [MapGet(@, data.element) EXCEPT
                                            !.callbackHits = data.callbackHits])
                          ELSE @]
             m2 == [m1 EXCEPT
                      !.called = Append(@, [element |-> data.element,
                                            callback |-> data.callback,
                                            hitType |-> hitType,
                                            callbackHits |-> data.callbackHits,
                                            elementBounds |-> data.elementBounds,
                                            storedBounds |->
                                               IF MapHas(m1.elements, data.element)
                                               THEN Some(MapGet(m1.elements,
                                                           data.element).elementBounds)
                                               ELSE None,
                                            registered |->
                                               MapHas(m1.elements, data.element),
                                            published |-> Len(m1.emitted)])]
             m3 == [m2 EXCEPT
                      !.hooked = Append(@, [element |-> data.element,
                                            hook |-> m2.globalSettings.onAnyCallbackFired,
                                            callbackHits |-> data.callbackHits,
                                            registered |->
                                               MapHas(m2.elements, data.element),
                                            called |-> Len(m2.called),
                                            published |-> Len(m2.emitted)])]
         IN IF CallbackThrows(data.callback)
            THEN [m2 EXCEPT !.thrown = TRUE]
            ELSE IF HookThrows(m3.globalSettings.onAnyCallbackFired)
            THEN [m3 EXCEPT !.thrown = TRUE]
            ELSE unregister(
                   emit(m3, "callbackFired", data.element, hitType.subType),
                   data.element, "callbackHit")

\* ----------------------------------------------------------- mouse path
handleCallbackInteraction(m, elementData) ==
    LET expandedRect == elementData.elementBounds.expandedRect
    IN IF ~m.globalSettings.enableMousePrediction
       THEN IF isPointInRectangle(m.trajectoryPositions.currentPoint, expandedRect)
            THEN callCallback(m, Some(elementData), HitType("mouse", "hover"))
            ELSE m
       ELSE IF lineSegmentIntersectsRect(m.trajectoryPositions.currentPoint,
                   m.trajectoryPositions.predictedPoint, expandedRect)
            THEN callCallback(m, Some(elementData),
                              HitType("mouse", "trajectory"))
            ELSE m

\* The forEach of handleMouseMove without its visibility test.
RECURSIVE MouseMoveFrom_ignoresVisibility(_, _)
MouseMoveFrom_ignoresVisibility(m, keys) ==
    IF keys = <<>> \/ m.thrown THEN m
    ELSE IF ~MapHas(m.elements, Head(keys))
    THEN MouseMoveFrom_ignoresVisibility(m, Tail(keys))
    ELSE MouseMoveFrom_ignoresVisibility(
           handleCallbackInteraction(m, MapGet(m.elements, Head(keys))),
           Tail(keys))

\* this.elements.forEach(...): the keys in insertion order; a key deleted
\* before its turn is not visited; an exception ends the loop.
RECURSIVE MouseMoveFrom(_, _)
MouseMoveFrom(m, keys) ==
    IF keys = <<>> \/ m.thrown THEN m
    ELSE IF ~MapHas(m.elements, Head(keys)) THEN MouseMoveFrom(m, Tail(keys))
    ELSE LET currentData == MapGet(m.elements, Head(keys))
         IN MouseMoveFrom(
              IF ~currentData.isIntersectingWithViewport
              THEN m
              ELSE handleCallbackInteraction(m, currentData),
              Tail(keys))

handleMouseMove(m, e) ==
    LET m1 == updatePointerState(m, e)
        m2 == MouseMoveFrom(m1, KeysInOrder(m1.elements))
    IN IF m2.thrown THEN m2
       ELSE emit(m2, "mouseTrajectoryUpdate", "", "")

\* ------------------------------------------------------- DOM mutations
\* A MutationRecord: [type |-> "childList", removedNodes |-> n].
RECURSIVE UnregisterDisconnected(_, _)
UnregisterDisconnected(m, keys) ==
    IF keys = <<>> THEN m
    ELSE UnregisterDisconnected(
           IF ~m.isConnected[Head(keys)]
           THEN unregister(m, Head(keys), "disconnected")
           ELSE m,
           Tail(keys))

\* The loop over the mutation records that unregisters nothing.
DomMutationsFrom_keepsDisconnected(m, mutationsList) == m

RECURSIVE DomMutationsFrom(_, _)
DomMutationsFrom(m, mutationsList) ==
    IF mutationsList = <<>> THEN m
    ELSE LET mutation == Head(mutationsList)
         IN DomMutationsFrom(
              IF mutation.type = "childList" /\ mutation.removedNodes > 0
              THEN UnregisterDisconnected(m, KeysInOrder(m.elements))
              ELSE m,
              Tail(mutationsList))

handleDomMutations(m, mutationsList) ==
    LET m1 == IF Len(mutationsList) > 0
              THEN [m EXCEPT !.tabbableElementsCache = <<>>,
                             !.lastFocusedIndex = None]
              ELSE m
    IN DomMutationsFrom(m1, mutationsList)

\* ------------------------------------------------------------- tab path
handleKeyDown(m, e) ==
    IF e.key = "Tab" THEN [m EXCEPT !.lastKeyDown = Some(e)] ELSE m

\* tabbable(document.documentElement): the connected nodes in document order.
RECURSIVE Tabbable(_, _)
Tabbable(isConnected, nodes) ==
    IF nodes = <<>> THEN <<>>
    ELSE IF isConnected[Head(nodes)]
         THEN <<Head(nodes)>> \o Tabbable(isConnected, Tail(nodes))
         ELSE Tabbable(isConnected, Tail(nodes))

\* Array indexing from 0: cache[i] is absent outside 0 .. length - 1.
At(cache, i) == IF i >= 0 /\ i < Len(cache) THEN Some(cache[i + 1]) ELSE None
\* Array.prototype.findIndex: -1 when no entry matches.
FindIndex(cache, target) ==
    IF \E i \in 1..Len(cache) : cache[i] = target
    THEN (CHOOSE i \in 1..Len(cache) :
            cache[i] = target /\ \A j \in 1..(i - 1) : cache[j] # target) - 1
    ELSE -1

getFocusedElementIndex(isReversed, lastFocusedIndex, cache, targetElement) ==
    LET predictedIndex ==
            IF isReversed THEN Val(lastFocusedIndex) - 1
            ELSE Val(lastFocusedIndex) + 1
    IN IF /\ IsSome(lastFocusedIndex)
          /\ At(cache, predictedIndex) = Some(targetElement)
       THEN predictedIndex
       ELSE FindIndex(cache, targetElement)

\* The for loop of handleFocusIn: the registered elements at the indices
\* currentIndex, currentIndex +/- 1, ..., currentIndex +/- tabOffset.
RECURSIVE ElementsToPredict(_, _, _, _)
ElementsToPredict(m, currentIndex, isReversed, i) ==
    IF i > m.globalSettings.tabOffset THEN <<>>
    ELSE LET element == At(m.tabbableElementsCache,
                           IF isReversed THEN currentIndex - i
                           ELSE currentIndex + i)
         IN (IF IsSome(element) /\ MapHas(m.elements, Val(element))
             THEN <<Val(element)>> ELSE <<>>)
            \o ElementsToPredict(m, currentIndex, isReversed, i + 1)

RECURSIVE FocusFireFrom(_, _, _)
FocusFireFrom(m, elementsToPredict, hitType) ==
    IF elementsToPredict = <<>> \/ m.thrown THEN m
    ELSE FocusFireFrom(
           callCallback(m,
              IF MapHas(m.elements, Head(elementsToPredict))
              THEN Some(MapGet(m.elements, Head(elementsToPredict)))
              ELSE None,
              hitType),
           Tail(elementsToPredict), hitType)

\* e.target is a node; `isHTMLElement` is `e.target instanceof HTMLElement`.
handleFocusIn(m, e) ==
    IF ~IsSome(m.lastKeyDown) \/ ~m.globalSettings.enableTabPrediction THEN m
    ELSE IF ~e.isHTMLElement THEN m
    ELSE LET cache == IF Len(m.tabbableElementsCache) = 0
                      THEN Tabbable(m.isConnected, DomOrder)
                      ELSE m.tabbableElementsCache
             isReversed == Val(m.lastKeyDown).shiftKey
             currentIndex == getFocusedElementIndex(isReversed,
                                m.lastFocusedIndex, cache, e.target)
             m1 == [m EXCEPT !.tabbableElementsCache = cache,
                             !.lastFocusedIndex = Some(currentIndex),
                             !.lastKeyDown = None]
         IN FocusFireFrom(m1,
               ElementsToPredict(m1, currentIndex, isReversed, 0),
               HitType("tab", IF isReversed THEN "reverse" ELSE "forwards"))

\* ---------------------------------------------------------- scroll path
\* The direction the content moved, from an element's rect before and after;
\* a move of at most ScrollThreshold on both axes is "none".
ScrollThreshold == 1
getScrollDirection(oldRect, newRect) ==
    LET deltaY == newRect.top - oldRect.top
        deltaX == newRect.left - oldRect.left
    IN IF deltaY < -ScrollThreshold THEN "down"
       ELSE IF deltaY > ScrollThreshold THEN "up"
       ELSE IF deltaX < -ScrollThreshold THEN "right"
       ELSE IF deltaX > ScrollThreshold THEN "left"
       ELSE "none"

predictNextScrollPosition(currentPoint, direction, scrollMargin) ==
    CASE direction = "down" -> Point(currentPoint.x, currentPoint.y + scrollMargin)
      [] direction = "up" -> Point(currentPoint.x, currentPoint.y - scrollMargin)
      [] direction = "left" -> Point(currentPoint.x - scrollMargin, currentPoint.y)
      [] direction = "right" -> Point(currentPoint.x + scrollMargin, currentPoint.y)
      [] OTHER -> currentPoint

updateElementBounds(m, newRect, elementData) ==
    LET updatedElementData ==
            [elementData EXCEPT
                !.elementBounds.originalRect = Some(newRect),
                !.elementBounds.expandedRect =
                    getExpandedRect(newRect, elementData.elementBounds.hitSlop)]
        m1 == [m EXCEPT !.elements = MapSet(@, updatedElementData)]
    IN emit(m1, "elementDataUpdated", elementData.element, "bounds")

\* `elementData` is the record handlePositionChange read before
\* updateElementBounds stored a refreshed copy in the Map.
handleScrollPrefetch(m, elementData, newRect) ==
    IF m.globalSettings.enableScrollPrediction
    THEN IF ~IsSome(elementData.elementBounds.originalRect) THEN m
         ELSE LET scrollDirection ==
                      IF IsSome(m.scrollDirection) THEN Val(m.scrollDirection)
                      ELSE getScrollDirection(
                             Val(elementData.elementBounds.originalRect), newRect)
                  m1 == [m EXCEPT !.scrollDirection = Some(scrollDirection)]
                  predictedScrollPoint ==
                      IF IsSome(m1.predictedScrollPoint)
                      THEN Val(m1.predictedScrollPoint)
                      ELSE predictNextScrollPosition(
                             m1.trajectoryPositions.currentPoint,
                             scrollDirection, m1.globalSettings.scrollMargin)
                  m2 == [m1 EXCEPT
                            !.predictedScrollPoint = Some(predictedScrollPoint)]
                  m3 == IF lineSegmentIntersectsRect(
                              m2.trajectoryPositions.currentPoint,
                              predictedScrollPoint,
                              elementData.elementBounds.expandedRect)
                        THEN callCallback(m2, Some(elementData),
                                HitType("scroll", scrollDirection))
                        ELSE m2
              IN IF scrollDirection = "none" THEN m1
                 ELSE IF m3.thrown THEN m3
                 ELSE emit(m3, "scrollTrajectoryUpdate", "", "")
    ELSE IF isPointInRectangle(m.trajectoryPositions.currentPoint,
                               elementData.elementBounds.expandedRect)
         THEN callCallback(m, Some(elementData), HitType("mouse", "hover"))
         ELSE m

\* A PositionObserverEntry: [target, boundingClientRect, isIntersecting].
handlePositionEntry(m, entry) ==
    IF ~MapHas(m.elements, entry.target) THEN m
    ELSE LET stored == MapGet(m.elements, entry.target)
             wasPreviouslyIntersecting == stored.isIntersectingWithViewport
             isNowIntersecting == entry.isIntersecting
             elementData ==
                 [stored EXCEPT !.isIntersectingWithViewport = isNowIntersecting]
             m1 == [m EXCEPT !.elements = MapSet(@, elementData)]
             m2 == IF wasPreviouslyIntersecting # isNowIntersecting
                   THEN emit(m1, "elementDataUpdated", entry.target, "visibility")
                   ELSE m1
         IN IF isNowIntersecting
            THEN handleScrollPrefetch(
                   updateElementBounds(m2, entry.boundingClientRect, elementData),
                   elementData, entry.boundingClientRect)
            ELSE m2

RECURSIVE PositionChangeFrom(_, _)
PositionChangeFrom(m, entries) ==
    IF entries = <<>> \/ m.thrown THEN m
    ELSE PositionChangeFrom(handlePositionEntry(m, Head(entries)), Tail(entries))

handlePositionChange(m, entries) ==
    LET m1 == PositionChangeFrom(m, entries)
    IN IF m1.thrown THEN m1
       ELSE [m1 EXCEPT !.scrollDirection = None, !.predictedScrollPoint = None]

\* ---------------------------------------------------------------- state
VARIABLES
    elements,                  \* Map<ForesightElement, ForesightElementData>
    isSetup,
    globalCallbackHits,        \* _globalCallbackHits
    globalSettings,            \* _globalSettings
    trajectoryPositions,
    tabbableElementsCache,
    lastFocusedIndex,
    predictedScrollPoint,
    scrollDirection,
    domObserver,               \* a MutationObserver is connected
    positionObserver,          \* the PositionObserver's observed elements
    lastKeyDown,
    globalListenersController, \* an AbortController exists
    documentListeners,         \* the document's input listeners
    isConnected,               \* Node.isConnected of every node
    pendingMutations,          \* MutationRecords not yet delivered
    handles,                   \* the unregister functions register() returned
    endedHandles,              \* functions the consumer kept of removed
                               \* registrations whose element is registered again
    options,                   \* unregisterOnCallback as passed to register()
    hitSlops,                  \* hitSlop as passed to register()
    eventListeners,            \* Map<ForesightEventType, listener[]>
    emitted,                   \* events published by the last operation
    delivered,                 \* listener calls made by the last operation
    called,                    \* callbacks invoked by the last operation
    hooked,                    \* onAnyCallbackFired calls of the last operation
    thrown,                    \* the last operation ended by an exception
    result,                    \* what the last register() returned
    lastOp,                    \* the last operation and, of a call, its arguments
    repeated                   \* the last call repeats the call before it

vars ==
    <<elements, isSetup, globalCallbackHits, globalSettings,
      trajectoryPositions, tabbableElementsCache, lastFocusedIndex,
      predictedScrollPoint, scrollDirection, domObserver, positionObserver,
      lastKeyDown, globalListenersController, documentListeners, isConnected,
      pendingMutations, handles, endedHandles, options, hitSlops,
      eventListeners,
      emitted,
      delivered, called, hooked, thrown, result, lastOp, repeated>>

NoResult == [isRegistered |-> FALSE, unregister |-> ""]

\* The manager state an operation starts from: the fields, and nothing
\* published, invoked, thrown or returned yet.
St ==
    [elements |-> elements, isSetup |-> isSetup,
     globalCallbackHits |-> globalCallbackHits,
     globalSettings |-> globalSettings,
     trajectoryPositions |-> trajectoryPositions,
     tabbableElementsCache |-> tabbableElementsCache,
     lastFocusedIndex |-> lastFocusedIndex,
     predictedScrollPoint |-> predictedScrollPoint,
     scrollDirection |-> scrollDirection,
     domObserver |-> domObserver, positionObserver |-> positionObserver,
     lastKeyDown |-> lastKeyDown,
     globalListenersController |-> globalListenersController,
     documentListeners |-> documentListeners,
     isConnected |-> isConnected, pendingMutations |-> pendingMutations,
     eventListeners |-> eventListeners, delivered |-> <<>>,
     emitted |-> <<>>, called |-> <<>>, hooked |-> <<>>, thrown |-> FALSE,
     result |-> NoResult]

Holds(m) ==
    /\ elements = m.elements
    /\ isSetup = m.isSetup
    /\ globalCallbackHits = m.globalCallbackHits
    /\ globalSettings = m.globalSettings
    /\ trajectoryPositions = m.trajectoryPositions
    /\ tabbableElementsCache = m.tabbableElementsCache
    /\ lastFocusedIndex = m.lastFocusedIndex
    /\ predictedScrollPoint = m.predictedScrollPoint
    /\ scrollDirection = m.scrollDirection
    /\ domObserver = m.domObserver
    /\ positionObserver = m.positionObserver
    /\ lastKeyDown = m.lastKeyDown
    /\ globalListenersController = m.globalListenersController
    /\ documentListeners = m.documentListeners
    /\ isConnected = m.isConnected
    /\ pendingMutations = m.pendingMutations
    /\ eventListeners = m.eventListeners
    /\ delivered = m.delivered
    /\ emitted = m.emitted
    /\ called = m.called
    /\ hooked = m.hooked
    /\ thrown = m.thrown
    /\ result = m.result

Commit(m) ==
    /\ elements' = m.elements
    /\ isSetup' = m.isSetup
    /\ globalCallbackHits' = m.globalCallbackHits
    /\ globalSettings' = m.globalSettings
    /\ trajectoryPositions' = m.trajectoryPositions
    /\ tabbableElementsCache' = m.tabbableElementsCache
    /\ lastFocusedIndex' = m.lastFocusedIndex
    /\ predictedScrollPoint' = m.predictedScrollPoint
    /\ scrollDirection' = m.scrollDirection
    /\ domObserver' = m.domObserver
    /\ positionObserver' = m.positionObserver
    /\ lastKeyDown' = m.lastKeyDown
    /\ globalListenersController' = m.globalListenersController
    /\ documentListeners' = m.documentListeners
    /\ isConnected' = m.isConnected
    /\ pendingMutations' = m.pendingMutations
    /\ eventListeners' = m.eventListeners
    /\ delivered' = m.delivered
    /\ emitted' = m.emitted
    /\ called' = m.called
    /\ hooked' = m.hooked
    /\ thrown' = m.thrown
    /\ result' = m.result

\* An input event carries its data into the state; a call's arguments are
\* kept with its name.
Op(name, args) == [op |-> name, args |-> args]
NoArgs == <<>>

DefaultSettings ==
    [enableMousePrediction |-> DEFAULT_ENABLE_MOUSE_PREDICTION,
     enableScrollPrediction |-> DEFAULT_ENABLE_SCROLL_PREDICTION,
     positionHistorySize |-> DEFAULT_POSITION_HISTORY_SIZE,
     trajectoryPredictionTime |-> DEFAULT_TRAJECTORY_PREDICTION_TIME,
     scrollMargin |-> DEFAULT_SCROLL_MARGIN,
     defaultHitSlop |-> Rect(DEFAULT_HITSLOP, DEFAULT_HITSLOP,
                             DEFAULT_HITSLOP, DEFAULT_HITSLOP),
     enableTabPrediction |-> DEFAULT_ENABLE_TAB_PREDICTION,
     tabOffset |-> DEFAULT_TAB_OFFSET,
     onAnyCallbackFired |-> "noop"]

\* The fields of a new ForesightManager, in a document whose nodes are all
\* connected.
Constructed ==
    [elements |-> <<>>, isSetup |-> FALSE,
     globalCallbackHits |-> ZeroHits,
     globalSettings |-> DefaultSettings,
     trajectoryPositions |->
        [positions |-> <<>>, currentPoint |-> Point(0, 0),
         predictedPoint |-> Point(0, 0)],
     tabbableElementsCache |-> <<>>,
     lastFocusedIndex |-> None,
     predictedScrollPoint |-> None,
     scrollDirection |-> None,
     domObserver |-> FALSE, positionObserver |-> None,
     lastKeyDown |-> None,
     globalListenersController |-> FALSE,
     documentListeners |-> {},
     isConnected |-> [n \in Nodes |-> TRUE],
     pendingMutations |-> <<>>,
     eventListeners |-> [type \in EventTypes |-> <<>>], delivered |-> <<>>,
     emitted |-> <<>>, called |-> <<>>, hooked |-> <<>>, thrown |-> FALSE,
     result |-> NoResult]

\* ForesightManager.initialize(props): construction, then alterGlobalSettings.
InitWith(props) ==
    /\ Holds(alterGlobalSettings(Constructed, props, [e \in Elements |-> ZeroRect]))
    /\ handles = {}
    /\ endedHandles = {}
    /\ options = [e \in Elements |-> None]
    /\ hitSlops = [e \in Elements |-> None]
    /\ lastOp = Op("initialize", props)
    /\ repeated = FALSE

\* ------------------------------------------------------------ operations
\* Every operation leaves its name in lastOp.  A consumer's call may come at
\* any time; an input event, a PositionObserver batch and a MutationObserver
\* delivery are tasks of the event loop, and the MutationObserver's delivery
\* is a microtask: it runs before the next task, so no input event is handled
\* while records are pending.
NoMicrotaskPending == pendingMutations = <<>>

\* register({element, callback, hitSlop, unregisterOnCallback}) by a consumer.
Register(element, callback, hitSlop, unregisterOnCallback, shouldRegister) ==
    LET m == register(St, element, callback, hitSlop, shouldRegister)
    IN /\ Commit(m)
       /\ handles' = IF m.result.isRegistered
                     THEN handles \cup {m.result.unregister}
                     ELSE handles
       /\ options' = IF m.result.isRegistered
                     THEN [options EXCEPT ![element] = unregisterOnCallback]
                     ELSE options
       /\ hitSlops' = IF m.result.isRegistered
                      THEN [hitSlops EXCEPT ![element] = hitSlop]
                      ELSE hitSlops
       /\ UNCHANGED endedHandles
       /\ lastOp' = Op("register",
                       [element |-> element, callback |-> callback,
                        hitSlop |-> hitSlop])
       /\ repeated' = FALSE

\* A consumer calls `() => this.unregister(element, "apiCall")`, the
\* unregister function an accepted register(element) returned.
CallUnregister(handle) ==
    /\ handle \in handles
    /\ Commit(unregister(St, handle, "apiCall"))
    /\ lastOp' = Op("unregister", [handle |-> handle])
    /\ repeated' = FALSE
    /\ UNCHANGED <<handles, endedHandles, options, hitSlops>>

\* register() of an element that was registered before and removed, by a
\* consumer that keeps the unregister function of the removed registration.
RegisterAgain(element, callback) ==
    LET m == register(St, element, callback, None, TRUE)
    IN /\ element \in handles
       /\ ~MapHas(elements, element)
       /\ Commit(m)
       /\ handles' = handles
       /\ endedHandles' = endedHandles \cup {element}
       /\ options' = [options EXCEPT ![element] = None]
       /\ hitSlops' = [hitSlops EXCEPT ![element] = None]
       /\ lastOp' = Op("register",
                       [element |-> element, callback |-> callback,
                        hitSlop |-> None])
       /\ repeated' = FALSE

\* The consumer calls the unregister function it kept from a registration
\* that a fire, a disconnection or an unregister call has ended.  It is a
\* closure over the element, like the function of the later registration.
CallEarlierUnregister(handle) ==
    /\ handle \in endedHandles
    /\ Commit(unregister(St, handle, "apiCall"))
    /\ lastOp' = Op("unregister", [handle |-> handle, earlier |-> TRUE])
    /\ repeated' = FALSE
    /\ UNCHANGED <<handles, endedHandles, options, hitSlops>>

AlterGlobalSettings(props, layout) ==
    /\ Commit(alterGlobalSettings(St, props, layout))
    /\ lastOp' = Op("alterGlobalSettings", props)
    /\ repeated' = (lastOp.op = "alterGlobalSettings" /\ lastOp.args = props)
    /\ UNCHANGED <<handles, endedHandles, options, hitSlops>>

\* A subscriber calls ForesightManager.instance.addEventListener /
\* removeEventListener.
AddEventListener(eventType, listener, aborted) ==
    /\ Len(eventListeners[eventType]) < MaxListeners
    /\ Commit(managerAddEventListener(St, eventType, listener, aborted))
    /\ lastOp' = Op("addEventListener", NoArgs)
    /\ repeated' = FALSE
    /\ UNCHANGED <<handles, endedHandles, options, hitSlops>>

RemoveEventListener(eventType, listener) ==
    /\ Commit(managerRemoveEventListener(St, eventType, listener))
    /\ lastOp' = Op("removeEventListener", NoArgs)
    /\ repeated' = FALSE
    /\ UNCHANGED <<handles, endedHandles, options, hitSlops>>

\* The document dispatches an input event to the listeners it holds.
MouseMove(e) ==
    /\ Listening(documentListeners, "mousemove")
    /\ NoMicrotaskPending
    /\ globalCallbackHits.total < MaxHits
    /\ Commit(handleMouseMove(St, e))
    /\ lastOp' = Op("mousemove", NoArgs)
    /\ repeated' = FALSE
    /\ UNCHANGED <<handles, endedHandles, options, hitSlops>>

KeyDown(e) ==
    /\ Listening(documentListeners, "keydown")
    /\ NoMicrotaskPending
    /\ Commit(handleKeyDown(St, e))
    /\ lastOp' = Op("keydown", NoArgs)
    /\ repeated' = FALSE
    /\ UNCHANGED <<handles, endedHandles, options, hitSlops>>

FocusIn(e) ==
    /\ Listening(documentListeners, "focusin")
    /\ NoMicrotaskPending
    /\ e.target \in Nodes => isConnected[e.target]
    /\ globalCallbackHits.total < MaxHits
    /\ Commit(handleFocusIn(St, e))
    /\ lastOp' = Op("focusin", NoArgs)
    /\ repeated' = FALSE
    /\ UNCHANGED <<handles, endedHandles, options, hitSlops>>

\* The page removes a node from the document, or puts it back; a connected
\* MutationObserver queues a record of it.
DomChange(node, connect) ==
    /\ isConnected[node] # connect
    /\ domObserver => Len(pendingMutations) < MaxPending
    /\ Commit([St EXCEPT
                 !.isConnected[node] = connect,
                 !.pendingMutations =
                     IF domObserver
                     THEN Append(@, [type |-> "childList",
                                     removedNodes |-> IF connect THEN 0 ELSE 1])
                     ELSE @])
    /\ lastOp' = Op("domChange", NoArgs)
    /\ repeated' = FALSE
    /\ UNCHANGED <<handles, endedHandles, options, hitSlops>>

\* The MutationObserver delivers the queued records.
DomMutations ==
    /\ domObserver
    /\ pendingMutations # <<>>
    /\ Commit(handleDomMutations([St EXCEPT !.pendingMutations = <<>>],
                                 pendingMutations))
    /\ lastOp' = Op("domMutations", NoArgs)
    /\ repeated' = FALSE
    /\ UNCHANGED <<handles, endedHandles, options, hitSlops>>

\* The PositionObserver reports a batch: one entry per observed element that
\* moved, resized or changed visibility.
Entry(target, rect, isIntersecting) ==
    [target |-> target, boundingClientRect |-> rect,
     isIntersecting |-> isIntersecting]
\* An entry that reports its target outside the viewport carries OffRect.
OffRect == Rect(-100, 0, 10, -90)
Batches(targets, rects) ==
    LET entries == {Entry(t, r, TRUE) : t \in targets, r \in rects}
                     \cup {Entry(t, OffRect, FALSE) : t \in targets}
    IN {b \in UNION {[1..n -> entries] : n \in 1..MaxBatch} :
          \A i, j \in 1..Len(b) : i # j => b[i].target # b[j].target}

PositionChange(entries) ==
    /\ IsSome(positionObserver)
    /\ NoMicrotaskPending
    /\ \A i \in 1..Len(entries) : entries[i].target \in Val(positionObserver)
    /\ globalCallbackHits.total < MaxHits
    /\ Commit(handlePositionChange(St, entries))
    /\ lastOp' = Op("positionChange", NoArgs)
    /\ repeated' = FALSE
    /\ UNCHANGED <<handles, endedHandles, options, hitSlops>>

\* ------------------------------------------------- the specification Spec
\* The registry with the mouse and the scroll fire paths, after
\* initialize({positionHistorySize: 2}): two elements that are laid out at
\* RectA or RectB, a pointer at the origin or inside RectA.
RectA == Rect(10, 10, 20, 20)
RectB == Rect(40, 10, 20, 50)
SpecPoints == {Point(0, 0), Point(15, 15)}
SpecRects == {RectA, RectB}
MouseEvent(p) == [clientX |-> p.x, clientY |-> p.y]

Init == InitWith([NoProps EXCEPT !.positionHistorySize = Some(2)])

Next ==
    \/ \E e \in Elements, cb \in Callbacks : Register(e, cb, None, None, TRUE)
    \/ Register("e1", "cb1", None, None, FALSE)
    \/ \E h \in Elements : CallUnregister(h)
    \/ \E p \in SpecPoints : MouseMove(MouseEvent(p))
    \/ \E b \in Batches(Elements, SpecRects) : PositionChange(b)

Spec == Init /\ [][Next]_vars

\* ---------------------------------------- the specification SpecLifecycle
\* Listener lifecycle: registrations, unregister calls, DOM disconnection,
\* the tab fire path and a pointer that moves over the origin.  "e1" takes any
\* callback and may leave the document; "e2" stays connected.
NextLifecycle ==
    \/ \E cb \in Callbacks : Register("e1", cb, None, None, TRUE)
    \/ \E s \in BOOLEAN : Register("e2", "cb1", None, None, s)
    \/ \E h \in Elements : CallUnregister(h)
    \/ MouseMove(MouseEvent(Point(0, 0)))
    \/ KeyDown([key |-> "Tab", shiftKey |-> FALSE])
    \/ \E n \in Nodes : FocusIn([target |-> n, isHTMLElement |-> TRUE])
    \/ \E c \in BOOLEAN : DomChange("e1", c)
    \/ DomMutations

SpecLifecycle == Init /\ [][NextLifecycle]_vars

\* ----------------------------------------- the specification SpecRegistry
\* register() with every option, the unregister functions and a pointer at
\* the origin or inside RectA.
RegistryOptions ==
    {[hitSlop |-> None, unregisterOnCallback |-> None],
     [hitSlop |-> Some([num |-> 5]), unregisterOnCallback |-> Some(FALSE)]}

NextRegistry ==
    \/ \E e \in Elements, cb \in Callbacks, o \in RegistryOptions :
          Register(e, cb, o.hitSlop, o.unregisterOnCallback, TRUE)
    \/ Register("e1", "cb1", None, None, FALSE)
    \/ \E h \in Elements : CallUnregister(h)
    \/ \E p \in SpecPoints : MouseMove(MouseEvent(p))

SpecRegistry == Init /\ [][NextRegistry]_vars

\* ----------------------------------------- the specification SpecSettings
\* initialize(props) and alterGlobalSettings(props) with one setting each:
\* below its minimum, above its maximum, or in range; one element that may
\* be registered, laid out at RectA.
OutOfRange(min, max) == {Some(min - 1), Some(max + 1)}
SettingsProps ==
    {[NoProps EXCEPT !.positionHistorySize = v] :
        v \in OutOfRange(MIN_POSITION_HISTORY_SIZE, MAX_POSITION_HISTORY_SIZE)
                \cup {Some(MIN_POSITION_HISTORY_SIZE + 1)}}
    \cup {[NoProps EXCEPT !.trajectoryPredictionTime = v] :
        v \in OutOfRange(MIN_TRAJECTORY_PREDICTION_TIME,
                         MAX_TRAJECTORY_PREDICTION_TIME)}
    \cup {[NoProps EXCEPT !.scrollMargin = v] :
        v \in OutOfRange(MIN_SCROLL_MARGIN, MAX_SCROLL_MARGIN)}
    \cup {[NoProps EXCEPT !.tabOffset = v] :
        v \in OutOfRange(MIN_TAB_OFFSET, MAX_TAB_OFFSET)}
    \cup {[NoProps EXCEPT !.enableMousePrediction = Some(FALSE)]}
    \cup {[NoProps EXCEPT !.defaultHitSlop = Some([num |-> n])] :
            n \in {5, MAX_HITSLOP + 1}}
    \cup {NoProps}
SettingsLayout == [e \in Elements |-> RectA]

InitSettings == \E props \in SettingsProps : InitWith(props)

NextSettings ==
    \/ \E props \in SettingsProps : AlterGlobalSettings(props, SettingsLayout)
    \/ Register("e1", "cb1", None, None, TRUE)

SpecSettings == InitSettings /\ [][NextSettings]_vars

\* ---------------------------------------------- the specification SpecTab
\* The tab fire path: Tab and Shift+Tab keydowns, focus-ins on every node of
\* the document and on "d0", an element that takes focus by a click or by
\* script and is not tabbable (tabindex = -1), under the tab offsets 0, 1
\* and the default.
Untabbable == "d0"
TabOffsets == {0, 1}

NextTab ==
    \/ \E e \in Elements, cb \in Callbacks : Register(e, cb, None, None, TRUE)
    \/ \E h \in Elements : CallUnregister(h)
    \/ \E shift \in BOOLEAN : KeyDown([key |-> "Tab", shiftKey |-> shift])
    \/ \E n \in Nodes \cup {Untabbable} :
          FocusIn([target |-> n, isHTMLElement |-> TRUE])
    \/ \E n \in TabOffsets :
          AlterGlobalSettings([NoProps EXCEPT !.tabOffset = Some(n)],
                              SettingsLayout)

SpecTab == Init /\ [][NextTab]_vars

\* ------------------------------------------- the specification SpecEvents
\* Subscribers of callbackFired and elementUnregistered, some of which
\* raise, while elements are registered, unregistered and fired by a pointer
\* at the origin.
WatchedEvents == {"callbackFired", "elementUnregistered"}

NextEvents ==
    \/ \E type \in WatchedEvents, l \in Subscribers, aborted \in BOOLEAN :
          AddEventListener(type, l, aborted)
    \/ \E type \in WatchedEvents, l \in Subscribers :
          RemoveEventListener(type, l)
    \/ \E e \in Elements, cb \in Callbacks : Register(e, cb, None, None, TRUE)
    \/ \E h \in Elements : CallUnregister(h)
    \/ MouseMove(MouseEvent(Point(0, 0)))

SpecEvents == Init /\ [][NextEvents]_vars

\* ------------------------------------------- the specification SpecBounds
\* Element bounds: elements registered with the default hit-slop or with one
\* of their own, position reports, and alterGlobalSettings({defaultHitSlop})
\* while the elements are laid out at RectA or at RectB.
BoundsHitSlops == {None, Some([num |-> 5])}
BoundsProps ==
    {[NoProps EXCEPT !.defaultHitSlop = Some([num |-> n])] : n \in {0, 3}}
BoundsLayouts == {[e \in Elements |-> r] : r \in SpecRects}

NextBounds ==
    \/ \E e \in Elements, hs \in BoundsHitSlops :
          Register(e, "cb1", hs, None, TRUE)
    \/ \E b \in Batches(Elements, SpecRects) : PositionChange(b)
    \/ \E props \in BoundsProps, layout \in BoundsLayouts :
          AlterGlobalSettings(props, layout)

SpecBounds == Init /\ [][NextBounds]_vars

\* ------------------------------------------ the specification SpecHistory
\* The pointer history: pointer moves over three points, before and after
\* the registry was emptied, and alterGlobalSettings({positionHistorySize})
\* with a value below the minimum, 1 and 3.
HistoryPoints == {Point(30, 30), Point(34, 31), Point(50, 60)}
HistorySizes == {MIN_POSITION_HISTORY_SIZE - 1, 1, 3}

NextHistory ==
    \/ Register("e1", "cb1", None, None, TRUE)
    \/ CallUnregister("e1")
    \/ \E p \in HistoryPoints : MouseMove(MouseEvent(p))
    \/ \E n \in HistorySizes :
          AlterGlobalSettings([NoProps EXCEPT !.positionHistorySize = Some(n)],
                              SettingsLayout)

SpecHistory == Init /\ [][NextHistory]_vars

\* ----------------------------------------- the specification SpecCounters
\* The three fire paths together: a pointer inside RectA with and without
\* trajectory prediction, Tab and Shift+Tab focus-ins, and position reports
\* that move "e1" between RectA and RectB.
NextCounters ==
    \/ \E cb \in Callbacks : Register("e1", cb, None, None, TRUE)
    \/ Register("e2", "cb1", None, None, TRUE)
    \/ MouseMove(MouseEvent(Point(15, 15)))
    \/ \E shift \in BOOLEAN : KeyDown([key |-> "Tab", shiftKey |-> shift])
    \/ FocusIn([target |-> "n0", isHTMLElement |-> TRUE])
    \/ \E b \in Batches({"e1"}, SpecRects) : PositionChange(b)
    \/ AlterGlobalSettings(
          [NoProps EXCEPT !.enableMousePrediction = Some(FALSE)], SettingsLayout)

SpecCounters == Init /\ [][NextCounters]_vars

\* ---------------------------------------------- the specification SpecFire
\* Whole fires and fires cut short: callbacks and an onAnyCallbackFired hook
\* that return or raise, a subscriber to callbackFired and to
\* elementUnregistered, and fires of "e1" by the pointer, by Tab and by a
\* position report.
NextFire ==
    \/ \E type \in WatchedEvents : AddEventListener(type, "l1", FALSE)
    \/ \E cb \in Callbacks : Register("e1", cb, None, None, TRUE)
    \/ \E hook \in Hooks :
          AlterGlobalSettings(
             [NoProps EXCEPT !.onAnyCallbackFired = Some(hook)], SettingsLayout)
    \/ MouseMove(MouseEvent(Point(15, 15)))
    \/ KeyDown([key |-> "Tab", shiftKey |-> FALSE])
    \/ FocusIn([target |-> "e1", isHTMLElement |-> TRUE])
    \/ \E b \in Batches({"e1"}, SpecRects) : PositionChange(b)

SpecFire == Init /\ [][NextFire]_vars

\* -------------------------------------------- the specification SpecScroll
\* Position reports of one or two entries for two elements that move between
\* RectA and RectB or leave the viewport, with a pointer inside RectA and
\* scroll prediction switched on and off.  "e1" takes any callback.
PairBatches(targets, rects) ==
    LET entries == {Entry(t, r, TRUE) : t \in targets, r \in rects}
                     \cup {Entry(t, OffRect, FALSE) : t \in targets}
    IN {b \in [1..2 -> entries] : b[1].target # b[2].target}

NextScroll ==
    \/ \E cb \in Callbacks : Register("e1", cb, None, None, TRUE)
    \/ Register("e2", "cb1", None, None, TRUE)
    \/ MouseMove(MouseEvent(Point(15, 15)))
    \/ \E b \in Batches(Elements, SpecRects) : PositionChange(b)
    \/ \E b \in PairBatches(Elements, SpecRects) : PositionChange(b)
    \/ \E on \in BOOLEAN :
          AlterGlobalSettings(
             [NoProps EXCEPT !.enableScrollPrediction = Some(on)], SettingsLayout)

SpecScroll == Init /\ [][NextScroll]_vars

\* --------------------------------------------- the specification SpecHover
\* The pointer with trajectory prediction switched off and on: two elements
\* that position reports lay out at RectA or take out of the viewport, and
\* a pointer at the origin or inside RectA.  "e1" takes any callback.
NextHover ==
    \/ \E cb \in Callbacks : Register("e1", cb, None, None, TRUE)
    \/ Register("e2", "cb1", None, None, TRUE)
    \/ \E p \in SpecPoints : MouseMove(MouseEvent(p))
    \/ \E b \in Batches(Elements, {RectA}) : PositionChange(b)
    \/ \E on \in BOOLEAN :
          AlterGlobalSettings(
             [NoProps EXCEPT !.enableMousePrediction = Some(on)], SettingsLayout)

SpecHover == Init /\ [][NextHover]_vars

\* ------------------------------------------ the specification SpecDelivery
\* Delivery to subscribers that stay and subscribers that unsubscribe
\* themselves while they handle an event: "e1" is registered, unregistered
\* and fired by a pointer at the origin.
NextDelivery ==
    \/ \E type \in WatchedEvents, l \in {"l1", "lLeaves"} :
          AddEventListener(type, l, FALSE)
    \/ \E type \in WatchedEvents : RemoveEventListener(type, "l1")
    \/ Register("e1", "cb1", None, None, TRUE)
    \/ CallUnregister("e1")
    \/ MouseMove(MouseEvent(Point(0, 0)))

SpecDelivery == Init /\ [][NextDelivery]_vars

\* ------------------------------------------- the specification SpecHandles
\* Unregister functions that outlive their registration: "e1" and "e2" are
\* registered, removed by a fire of a pointer at the origin, by disconnection
\* of "e1" or by an unregister function, and registered again; the consumer
\* calls the functions of current and of ended registrations.
NextHandles ==
    \/ \E e \in Elements : Register(e, "cb1", None, None, TRUE)
    \/ \E e \in Elements : RegisterAgain(e, "cb1")
    \/ \E h \in Elements : CallUnregister(h)
    \/ \E h \in Elements : CallEarlierUnregister(h)
    \/ MouseMove(MouseEvent(Point(0, 0)))
    \/ \E c \in BOOLEAN : DomChange("e1", c)
    \/ DomMutations

SpecHandles == Init /\ [][NextHandles]_vars

\* ------------------------------------------------------------ the claims
\* C1: a registration's callback is invoked at most once: an operation
\* invokes no element's callback twice, and every element whose callback the
\* operation invoked is absent from the registry when the operation is over.
C1_FiredElementIsRemoved ==
    /\ \A i, j \in 1..Len(called) :
          i # j => called[i].element # called[j].element
    /\ \A i \in 1..Len(called) : ~MapHas(elements, called[i].element)

\* C2: an element registered with unregisterOnCallback: false is still in the
\* registry after an operation invoked its callback.
C2_StaysWhenFireOnceDisabled ==
    \A i \in 1..Len(called) :
        options[called[i].element] = Some(FALSE)
            => MapHas(elements, called[i].element)

C5_NumericSettingsInRange ==
    \A setting \in {[name |-> "positionHistorySize",
                     min |-> MIN_POSITION_HISTORY_SIZE,
                     max |-> MAX_POSITION_HISTORY_SIZE],
                    [name |-> "trajectoryPredictionTime",
                     min |-> MIN_TRAJECTORY_PREDICTION_TIME,
                     max |-> MAX_TRAJECTORY_PREDICTION_TIME],
                    [name |-> "scrollMargin",
                     min |-> MIN_SCROLL_MARGIN, max |-> MAX_SCROLL_MARGIN],
                    [name |-> "tabOffset",
                     min |-> MIN_TAB_OFFSET, max |-> MAX_TAB_OFFSET]} :
        LET stored == globalSettings[setting.name]
        IN /\ setting.min <= stored
           /\ stored <= setting.max
           /\ (/\ lastOp.op \in {"initialize", "alterGlobalSettings"}
               /\ IsSome(lastOp.args[setting.name]))
                 => LET passed == Val(lastOp.args[setting.name])
                    IN /\ passed > setting.max => stored = setting.max
                       /\ passed < setting.min => stored = setting.min

\* alterGlobalSettings({positionHistorySize: max + 1}) has stored the maximum.
C5_Witness ==
    /\ lastOp.op = "alterGlobalSettings"
    /\ IsSome(lastOp.args.positionHistorySize)
    /\ Val(lastOp.args.positionHistorySize) > MAX_POSITION_HISTORY_SIZE
    /\ globalSettings.positionHistorySize = MAX_POSITION_HISTORY_SIZE
    /\ globalSettings.tabOffset = MIN_TAB_OFFSET

\* C6: an alterGlobalSettings(u) call that repeats the call before it changes
\* no stored setting and no element bounds, and publishes nothing.
C6_RepeatedUpdateIsSilent ==
    [][(lastOp'.op = "alterGlobalSettings" /\ repeated')
          => /\ globalSettings' = globalSettings
             /\ elements' = elements
             /\ emitted' = <<>>]_vars

\* C7: a declined register() returns isRegistered = false and a no-op
\* unregister function; the registry, the listeners and observers and the
\* counters are as before and nothing is published.
C7_DeclinedRegistrationChangesNothing ==
    [][(lastOp'.op = "register" /\ ~result'.isRegistered)
          => /\ result'.unregister = "noop"
             /\ handles' = handles
             /\ elements' = elements
             /\ globalCallbackHits' = globalCallbackHits
             /\ isSetup' = isSetup
             /\ documentListeners' = documentListeners
             /\ globalListenersController' = globalListenersController
             /\ domObserver' = domObserver
             /\ positionObserver' = positionObserver
             /\ emitted' = <<>>
             /\ ~thrown']_vars

\* register() was declined while the registry held an element.
C7_Witness ==
    /\ lastOp.op = "register"
    /\ ~result.isRegistered
    /\ result.unregister = "noop"
    /\ Len(elements) > 0

\* C8: calling the unregister function of an element the registry does not
\* hold publishes nothing, raises nothing and leaves the registry, the
\* counters and the listeners and observers as they were.
C8_UnregisterAbsentIsNoOp ==
    [][(lastOp'.op = "unregister" /\ ~MapHas(elements, lastOp'.args.handle))
          => /\ emitted' = <<>>
             /\ ~thrown'
             /\ elements' = elements
             /\ globalCallbackHits' = globalCallbackHits
             /\ isSetup' = isSetup
             /\ documentListeners' = documentListeners
             /\ globalListenersController' = globalListenersController
             /\ domObserver' = domObserver
             /\ positionObserver' = positionObserver]_vars

\* An unregister function was called for an element a fire had removed,
\* while the other element was registered.
C8_Witness ==
    /\ lastOp.op = "unregister"
    /\ emitted = <<>>
    /\ ~MapHas(elements, lastOp.args.handle)
    /\ globalCallbackHits.total > 0
    /\ Len(elements) > 0

\* C9: no element has two records; register() of an element the registry
\* holds keeps the registry's size and order and stores a new record (the
\* callback and hit-slop passed, zeroed counters); every callback invoked is
\* the one stored in the registry when the operation began.
C9_ReRegisterReplaces ==
    /\ [](\A i, j \in 1..Len(elements) :
             i # j => elements[i].element # elements[j].element)
    /\ [][(/\ lastOp'.op = "register"
           /\ result'.isRegistered
           /\ MapHas(elements, lastOp'.args.element))
            => LET args == lastOp'.args
                   new == MapGet(elements', args.element)
               IN /\ KeysInOrder(elements') = KeysInOrder(elements)
                  /\ new.callback = args.callback
                  /\ new.callbackHits = ZeroHits
                  /\ new.elementBounds.hitSlop =
                        IF IsSome(args.hitSlop)
                        THEN LET n == Val(args.hitSlop).num
                             IN Rect(n, n, n, n)
                        ELSE globalSettings.defaultHitSlop
                  /\ new.elementBounds.originalRect = None]_vars
    /\ [][\A i \in 1..Len(called') :
             /\ MapHas(elements, called'[i].element)
             /\ called'[i].callback =
                    MapGet(elements, called'[i].element).callback]_vars

\* The element registered last is first in a registry of two: its record was
\* replaced in place; it had fired (its callback raised) and its counters
\* are zero again.
C9_Witness ==
    /\ lastOp.op = "register"
    /\ result.isRegistered
    /\ Len(elements) = 2
    /\ elements[1].element = lastOp.args.element
    /\ elements[1].callbackHits = ZeroHits
    /\ globalCallbackHits.total > 0

\* C10: a pointer move invokes the callback only of elements that were
\* intersecting the viewport when it arrived; a position-change batch invokes
\* the callback of an element that was not intersecting only if the batch
\* itself reported the element intersecting.
C10_InvisibleIsSkipped ==
    [][\A i \in 1..Len(called') :
          LET element == called'[i].element
              wasIntersecting ==
                  MapGet(elements, element).isIntersectingWithViewport
          IN /\ MapHas(elements, element)
             /\ lastOp'.op = "mousemove" => wasIntersecting
             /\ (lastOp'.op = "positionChange" /\ ~wasIntersecting)
                   => \E k \in 1..Len(emitted') :
                         /\ emitted'[k].type = "elementDataUpdated"
                         /\ emitted'[k].element = element
                         /\ emitted'[k].detail = "visibility"]_vars

\* A pointer move whose trajectory crosses the expanded rect of an element
\* that is not intersecting the viewport fired nothing.
C10_Witness ==
    /\ lastOp.op = "mousemove"
    /\ called = <<>>
    /\ \E i \in 1..Len(elements) :
          /\ ~elements[i].isIntersectingWithViewport
          /\ elements[i].elementBounds.expandedRect # ZeroRect
          /\ lineSegmentIntersectsRect(trajectoryPositions.currentPoint,
                                       trajectoryPositions.predictedPoint,
                                       elements[i].elementBounds.expandedRect)

\* C11: a focus-in after a Tab keydown, with tab prediction enabled, whose
\* target resolves to index k of the tabbable list invokes, once each, the
\* callbacks of exactly the registered elements at the indices k .. k + N
\* (Tab) or k - N .. k (Shift+Tab) that lie in the list, N the tab offset.
C11_TabWindowFires ==
    [][(/\ lastOp'.op = "focusin"
        /\ IsSome(lastKeyDown)
        /\ globalSettings.enableTabPrediction
        /\ Val(lastFocusedIndex') >= 0)
          => LET k == Val(lastFocusedIndex')
                 N == globalSettings.tabOffset
                 cache == tabbableElementsCache'
                 window == IF Val(lastKeyDown).shiftKey
                           THEN (k - N)..k ELSE k..(k + N)
                 expected ==
                     {cache[i + 1] : i \in window \cap 0..(Len(cache) - 1)}
                        \cap MapKeys(elements)
             IN /\ {called'[j].element : j \in 1..Len(called')} = expected
                /\ Len(called') = Cardinality(expected)]_vars

\* C12: a focus-in after a Tab keydown, with tab prediction enabled, whose
\* target is not in the cached tabbable list invokes no callback and raises
\* nothing.
C12_UnlocatedFocusFiresNothing ==
    [][(/\ lastOp'.op = "focusin"
        /\ IsSome(lastKeyDown)
        /\ globalSettings.enableTabPrediction
        /\ Val(lastFocusedIndex') = -1)
          => /\ called' = <<>>
             /\ ~thrown']_vars

\* C13: every event an operation published was delivered to each listener
\* subscribed to its type, as often as the listener is subscribed, whether
\* or not another listener raised; an operation ends by an exception only
\* if a callback it invoked raised; and the element of a published
\* callbackFired or elementUnregistered is out of the registry when the
\* operation is over.
C13_SubscriberIsolation ==
    /\ \A k \in 1..Len(emitted) : \A l \in Subscribers :
          LET listeners == eventListeners[emitted[k].type]
          IN Cardinality({j \in 1..Len(delivered) :
                            /\ delivered[j].event = emitted[k]
                            /\ delivered[j].listener = l})
               = Cardinality({i \in 1..Len(listeners) : listeners[i] = l})
    /\ \A j \in 1..Len(delivered) :
          \E k \in 1..Len(emitted) : delivered[j].event = emitted[k]
    /\ thrown => \E j \in 1..Len(called) : CallbackThrows(called[j].callback)
    /\ \A k \in 1..Len(emitted) :
          emitted[k].type \in {"callbackFired", "elementUnregistered"}
             => ~MapHas(elements, emitted[k].element)

\* A callbackFired listener raised, the listener subscribed after it received
\* the same event, and the fired element is out of the registry.
C13_Witness ==
    \E j, k \in 1..Len(delivered) :
        /\ j < k
        /\ delivered[j].raised
        /\ ~delivered[k].raised
        /\ delivered[k].event = delivered[j].event
        /\ delivered[j].event.type = "callbackFired"
        /\ ~MapHas(elements, delivered[j].event.element)

\* C14: an alterGlobalSettings call that changes defaultHitSlop stores, for
\* every element that is intersecting the viewport, the expanded rect
\* computed from the element's current bounding rect and publishes
\* elementDataUpdated / bounds exactly for the elements whose expanded rect
\* changed; it leaves the records of the other elements as they were; a call
\* with the stored defaultHitSlop changes no record and publishes nothing.
C14_HitSlopChangeRecomputesVisible ==
    [][\A props \in BoundsProps, layout \in BoundsLayouts :
          AlterGlobalSettings(props, layout)
            => LET changed == globalSettings'.defaultHitSlop
                                 # globalSettings.defaultHitSlop
                   Updated(element) ==
                       \E k \in 1..Len(emitted') :
                          /\ emitted'[k].type = "elementDataUpdated"
                          /\ emitted'[k].element = element
                          /\ emitted'[k].detail = "bounds"
               IN /\ ~changed => elements' = elements /\ emitted' = <<>>
                  /\ changed =>
                       /\ KeysInOrder(elements') = KeysInOrder(elements)
                       /\ \A i \in 1..Len(elements) :
                            LET old == elements[i]
                                new == elements'[i]
                            IN IF old.isIntersectingWithViewport
                               THEN /\ new.elementBounds.expandedRect =
                                         getExpandedRect(layout[old.element],
                                            new.elementBounds.hitSlop)
                                    /\ Updated(old.element)
                                         <=> new.elementBounds.expandedRect
                                               # old.elementBounds.expandedRect
                               ELSE new = old /\ ~Updated(old.element)]_vars

\* defaultHitSlop was changed while one element was intersecting the
\* viewport and the other was not.
C14_Witness ==
    /\ lastOp.op = "alterGlobalSettings"
    /\ \E k \in 1..Len(emitted) : emitted[k].type = "managerSettingsChanged"
    /\ \E k \in 1..Len(emitted) : emitted[k].type = "elementDataUpdated"
    /\ \E i \in 1..Len(elements) : ~elements[i].isIntersectingWithViewport

\* C15: the pointer history never holds more than positionHistorySize
\* entries; an alterGlobalSettings call that lowers positionHistorySize below
\* the length of the history leaves the newest positionHistorySize entries,
\* in their order.
C15_HistoryFitsItsSize ==
    /\ [](Len(trajectoryPositions.positions) <= globalSettings.positionHistorySize)
    /\ [][(/\ lastOp'.op = "alterGlobalSettings"
           /\ globalSettings'.positionHistorySize
                 < Len(trajectoryPositions.positions))
            => LET old == trajectoryPositions.positions
                   size == globalSettings'.positionHistorySize
               IN trajectoryPositions'.positions =
                     [i \in 1..size |-> old[Len(old) - size + i]]]_vars

\* A call lowered positionHistorySize to 1 and the history holds its newest
\* entry, the current point.
C15_Witness ==
    /\ lastOp.op = "alterGlobalSettings"
    /\ globalSettings.positionHistorySize = 1
    /\ Len(trajectoryPositions.positions) = 1
    /\ trajectoryPositions.positions[1] = trajectoryPositions.currentPoint
    /\ \E k \in 1..Len(emitted) : emitted[k].type = "managerSettingsChanged"

\* C16: the counters start at zero; every total is the sum of its
\* sub-counters; an operation adds to each global sub-counter the number of
\* callbacks it invoked with that kind and subtype and to the global total
\* the number of callbacks it invoked; the record a callback is invoked for
\* has, compared with the registry's record before the operation, 1 more in
\* the sub-counter of the fire and in the total and the same elsewhere; the
\* counters of a record that stays in the registry (a registration of its
\* element makes a new record) grow by its fires only.
C16_CountersCountFires ==
    /\ globalCallbackHits = ZeroHits
    /\ [](\A hits \in {globalCallbackHits}
                    \cup {elements[i].callbackHits : i \in 1..Len(elements)} :
            hits.total = hits.mouse.hover + hits.mouse.trajectory
                           + hits.tab.forwards + hits.tab.reverse
                           + hits.scroll.down + hits.scroll.left
                           + hits.scroll.right + hits.scroll.up)
    /\ [][LET Fires(S, h) ==
                  Cardinality({j \in S : called'[j].hitType = h})
              All == 1..Len(called')
              Of(element) == {j \in All : called'[j].element = element}
          IN /\ globalCallbackHits'.total = globalCallbackHits.total + Len(called')
             /\ \A h \in HitTypes :
                   globalCallbackHits'[h.kind][h.subType]
                      = globalCallbackHits[h.kind][h.subType] + Fires(All, h)
             /\ \A j \in All :
                   LET old == MapGet(elements, called'[j].element).callbackHits
                       new == called'[j].callbackHits
                   IN /\ MapHas(elements, called'[j].element)
                      /\ new.total = old.total + 1
                      /\ \A h \in HitTypes :
                            new[h.kind][h.subType]
                               = old[h.kind][h.subType]
                                   + (IF h = called'[j].hitType THEN 1 ELSE 0)
             /\ \A i \in 1..Len(elements') :
                   LET element == elements'[i].element
                       new == elements'[i].callbackHits
                   IN (/\ MapHas(elements, element)
                       /\ ~(lastOp'.op = "register" /\ lastOp'.args.element = element))
                        => LET old == MapGet(elements, element).callbackHits
                           IN /\ new.total = old.total + Cardinality(Of(element))
                              /\ \A h \in HitTypes :
                                    new[h.kind][h.subType]
                                       = old[h.kind][h.subType]
                                           + Fires(Of(element), h)]_vars

\* Two fires so far, one of them by a position report whose callback raised:
\* the element is still registered and its record counts the fire.
C16_Witness ==
    /\ globalCallbackHits.total = 2
    /\ lastOp.op = "positionChange"
    /\ Len(called) = 1
    /\ called[1].hitType.kind = "scroll"
    /\ MapHas(elements, called[1].element)
    /\ MapGet(elements, called[1].element).callbackHits.scroll
          = globalCallbackHits.scroll

\* C17: in every state, every record of the registry has an originalRect,
\* and its expandedRect is that originalRect grown on each side by the
\* record's hitSlop.
C17_ExpandedIsGrownOriginal ==
    \A i \in 1..Len(elements) :
       LET bounds == elements[i].elementBounds
       IN /\ IsSome(bounds.originalRect)
          /\ bounds.expandedRect
                = getExpandedRect(Val(bounds.originalRect), bounds.hitSlop)

\* C18: in every operation, a callback is invoked for an element that is
\* in the registry with its counters already incremented and before anything
\* of its fire is published; the hook is invoked directly after a callback
\* that returned, for the same element, with the same view; callbackFired is
\* published directly after a hook that returned, and whoever receives it
\* finds the element in the registry with the incremented counters; the
\* elementUnregistered with reason callbackHit follows its callbackFired
\* directly, and there is none without a callbackFired before it.
C18_FireOrder ==
    [][LET Called == 1..Len(called')
           Hooked == 1..Len(hooked')
           Published == 1..Len(emitted')
           Fired == {n \in Published : emitted'[n].type = "callbackFired"}
       IN /\ \A j \in Called :
                /\ called'[j].registered
                /\ MapHas(elements, called'[j].element)
                /\ called'[j].callbackHits.total
                      = MapGet(elements, called'[j].element).callbackHits.total + 1
                /\ \A n \in Fired :
                      emitted'[n].element = called'[j].element
                         => n > called'[j].published
                /\ ~CallbackThrows(called'[j].callback)
                      => \E k \in Hooked : hooked'[k].called = j
          /\ \A k \in Hooked :
                /\ hooked'[k].called \in Called
                /\ LET c == called'[hooked'[k].called]
                   IN /\ c.element = hooked'[k].element
                      /\ ~CallbackThrows(c.callback)
                      /\ c.callbackHits = hooked'[k].callbackHits
                      /\ c.published = hooked'[k].published
                /\ hooked'[k].registered
                /\ ~HookThrows(hooked'[k].hook)
                      => /\ hooked'[k].published + 1 \in Fired
                         /\ emitted'[hooked'[k].published + 1].element
                               = hooked'[k].element
          /\ \A n \in Fired :
                /\ \E k \in Hooked :
                      /\ hooked'[k].published = n - 1
                      /\ hooked'[k].element = emitted'[n].element
                      /\ ~HookThrows(hooked'[k].hook)
                      /\ emitted'[n].callbackHits = Some(hooked'[k].callbackHits)
                /\ emitted'[n].registered
                /\ n + 1 \in Published
                /\ emitted'[n + 1].type = "elementUnregistered"
                /\ emitted'[n + 1].element = emitted'[n].element
                /\ emitted'[n + 1].detail = "callbackHit"
          /\ \A n \in Published :
                (emitted'[n].type = "elementUnregistered"
                    /\ emitted'[n].detail = "callbackHit")
                   => n - 1 \in Fired
          /\ \A d \in 1..Len(delivered') :
                delivered'[d].event.type = "callbackFired"
                   => /\ delivered'[d].event.registered
                      /\ \E j \in Called :
                            /\ called'[j].element = delivered'[d].event.element
                            /\ delivered'[d].event.callbackHits
                                  = Some(called'[j].callbackHits)]_vars

\* A whole fire with a subscriber to both events: one callback, one hook
\* call, callbackFired and elementUnregistered published and delivered.
C18_Witness ==
    /\ Len(called) = 1
    /\ Len(hooked) = 1
    /\ Len(emitted) >= 2
    /\ \E n \in 1..Len(emitted) - 1 :
          /\ emitted[n].type = "callbackFired"
          /\ emitted[n + 1].type = "elementUnregistered"
    /\ \E d \in 1..Len(delivered) : delivered[d].event.type = "callbackFired"
    /\ \E d \in 1..Len(delivered) :
          delivered[d].event.type = "elementUnregistered"
    /\ ~thrown

\* C19: when elementUnregistered is published, and so when a subscriber to
\* it runs, the element is no longer in the registry.
C19_RemovedBeforePublished ==
    /\ \A n \in 1..Len(emitted) :
          emitted[n].type = "elementUnregistered" => ~emitted[n].registered
    /\ \A d \in 1..Len(delivered) :
          delivered[d].event.type = "elementUnregistered"
             => ~delivered[d].event.registered

C21_ScrollCacheLivesOneBatch ==
    /\ [](scrollDirection = None /\ predictedScrollPoint = None)
    /\ [][\A i, j \in 1..Len(called') :
             (called'[i].hitType.kind = "scroll"
                 /\ called'[j].hitType.kind = "scroll")
                => called'[i].hitType.subType = called'[j].hitType.subType]_vars

\* C22: while scroll prediction is disabled, every callback a position
\* report invokes is a fire of kind mouse/hover, and the current pointer
\* point lies inside the expanded rect the element has in the registry.
C22_HoverFallback ==
    [][(lastOp'.op = "positionChange" /\ ~globalSettings.enableScrollPrediction)
          => \A j \in 1..Len(called') :
                /\ called'[j].hitType = HitType("mouse", "hover")
                /\ IsSome(called'[j].storedBounds)
                /\ isPointInRectangle(trajectoryPositions.currentPoint,
                      Val(called'[j].storedBounds).expandedRect)]_vars

\* C23: a pointer move that arrives while enableMousePrediction is false
\* leaves the predicted point equal to the current point, invokes the
\* callback of exactly the registered elements that intersect the viewport
\* and whose expanded rect contains the current point, once each, and every
\* one of these fires is mouse/hover.
C23_HoverOnlyWithoutPrediction ==
    [][(lastOp'.op = "mousemove" /\ ~globalSettings.enableMousePrediction)
          => LET point == trajectoryPositions'.currentPoint
                 expected ==
                     {elements[i].element : i \in
                        {i \in 1..Len(elements) :
                            /\ elements[i].isIntersectingWithViewport
                            /\ isPointInRectangle(point,
                                  elements[i].elementBounds.expandedRect)}}
             IN /\ trajectoryPositions'.predictedPoint = point
                /\ {called'[j].element : j \in 1..Len(called')} = expected
                /\ Len(called') = Cardinality(expected)
                /\ \A j \in 1..Len(called') :
                      called'[j].hitType = HitType("mouse", "hover")]_vars

\* C24: when the delivered DOM mutations include a record with removed
\* nodes, afterwards every element of the registry is connected; the
\* registry is what it was without the disconnected elements, each of which
\* has one elementUnregistered event with reason disconnected; no callback
\* was invoked and no global counter changed.
C24_DisconnectedAreUnregistered ==
    [][(/\ lastOp'.op = "domMutations"
        /\ \E k \in 1..Len(pendingMutations) :
              /\ pendingMutations[k].type = "childList"
              /\ pendingMutations[k].removedNodes > 0)
          => /\ \A i \in 1..Len(elements') : isConnected'[elements'[i].element]
             /\ elements' = SelectSeq(elements,
                               LAMBDA data : isConnected[data.element])
             /\ \A i \in 1..Len(elements) :
                   ~isConnected[elements[i].element]
                      => Cardinality(
                            {n \in 1..Len(emitted') :
                                /\ emitted'[n].type = "elementUnregistered"
                                /\ emitted'[n].element = elements[i].element
                                /\ emitted'[n].detail = "disconnected"}) = 1
             /\ called' = <<>>
             /\ hooked' = <<>>
             /\ globalCallbackHits' = globalCallbackHits]_vars

\* The delivery of DOM mutations took the last, disconnected element out of
\* the registry.
C24_Witness ==
    /\ lastOp.op = "domMutations"
    /\ elements = <<>>
    /\ ~isConnected["e1"]
    /\ \E n \in 1..Len(emitted) :
          /\ emitted[n].type = "elementUnregistered"
          /\ emitted[n].element = "e1"
          /\ emitted[n].detail = "disconnected"

\* C25: a callback that a position report invokes was found by a hit test
\* on the bounds the element's record has in the registry at that time, the
\* ones refreshed from the entry.
C25_TestUsesRefreshedBounds ==
    [][lastOp'.op = "positionChange"
          => \A j \in 1..Len(called') :
                /\ IsSome(called'[j].storedBounds)
                /\ called'[j].elementBounds.expandedRect
                      = Val(called'[j].storedBounds).expandedRect]_vars

\* C26: a pointer move or a position report invokes the callback only of
\* elements whose record had an originalRect when the operation began.
C26_UnmeasuredNeverFires ==
    [][lastOp'.op \in {"mousemove", "positionChange"}
          => \A j \in 1..Len(called') :
                /\ MapHas(elements, called'[j].element)
                /\ IsSome(MapGet(elements, called'[j].element)
                             .elementBounds.originalRect)]_vars

\* C27: no operation ends by an exception, and an element for which the
\* last operation invoked a callback that raised, or the hook when it raises,
\* is no longer in the registry.
C27_RaisingFireCompletes ==
    /\ ~thrown
    /\ \A j \in 1..Len(called) :
          (CallbackThrows(called[j].callback)
              \/ \E k \in 1..Len(hooked) :
                    /\ hooked[k].called = j
                    /\ HookThrows(hooked[k].hook))
             => ~MapHas(elements, called[j].element)

\* C28: the first event of a type that an operation publishes is delivered
\* to every listener subscribed to the type when the operation began, once
\* for each of its subscriptions.
C28_DeliveredToAllSubscribed ==
    [][\A n \in 1..Len(emitted') :
          (\A k \in 1..(n - 1) : emitted'[k].type # emitted'[n].type)
             => LET subscribed == eventListeners[emitted'[n].type]
                IN \A listener \in {subscribed[i] : i \in 1..Len(subscribed)} :
                      Cardinality({d \in 1..Len(delivered') :
                                      /\ delivered'[d].event = emitted'[n]
                                      /\ delivered'[d].listener = listener})
                         = Cardinality({i \in 1..Len(subscribed) :
                                           subscribed[i] = listener})]_vars

\* C29: a call of the unregister function of an ended registration,
\* made while its element is registered again, leaves the registry as it is
\* and publishes nothing.
C29_EarlierHandleIsInert ==
    [][\A handle \in Elements :
          (/\ lastOp' = Op("unregister", [handle |-> handle, earlier |-> TRUE])
           /\ MapHas(elements, handle))
             => /\ elements' = elements
                /\ emitted' = <<>>]_vars

\* C30: a focus-in that resolves tab targets (a Tab key-down is pending and
\* is consumed) works on, and leaves in the cache, the list of the nodes that
\* are tabbable in the document as it is at that time.
C30_TabbableCacheIsCurrent ==
    [][(/\ lastOp'.op = "focusin"
        /\ IsSome(lastKeyDown)
        /\ lastKeyDown' = None)
          => tabbableElementsCache' = Tabbable(isConnected, DomOrder)]_vars

\* C31: after an alterGlobalSettings call that changes defaultHitSlop,
\* every element that intersects the viewport and was registered without a
\* hit-slop of its own has the new default as its hitSlop and its current
\* bounding rect grown by the new default as its expandedRect; an element
\* registered with a hit-slop of its own keeps that hit-slop.
C31_NewDefaultReachesElements ==
    [][\A props \in BoundsProps, layout \in BoundsLayouts :
          (/\ AlterGlobalSettings(props, layout)
           /\ globalSettings'.defaultHitSlop # globalSettings.defaultHitSlop)
            => \A i \in 1..Len(elements') :
                  LET new == elements'[i]
                      passed == hitSlops[new.element]
                  IN IF IsSome(passed) /\ Truthy(Val(passed))
                     THEN new.elementBounds.hitSlop = normalizeHitSlop(Val(passed))
                     ELSE new.isIntersectingWithViewport
                            => /\ new.elementBounds.hitSlop
                                    = globalSettings'.defaultHitSlop
                               /\ new.elementBounds.expandedRect
                                    = getExpandedRect(layout[new.element],
                                         globalSettings'.defaultHitSlop)]_vars

====
